---------------------------- MODULE Spec2Model ----------------------------
(***************************************************************************)
(* Model of src/app.py: the ELC city-directory search.                     *)
(*                                                                         *)
(* Text is modelled character by character: a Python str is a sequence of  *)
(* one-character strings, so that strip, upper, the regular expressions    *)
(* of parse_address_for_sort, the ordering of strings and the formatting   *)
(* of integers are computed, not assumed.  The one character outside       *)
(* ASCII that the program writes, the em dash U+2014, is the token         *)
(* "EMDASH".                                                               *)
(***************************************************************************)
EXTENDS Integers, Sequences, FiniteSets, TLC

VARIABLES
    pc,            \* position of the pure-function harnesses
    df_addr,       \* format_year_listing: its argument (the rows of one address)
    out_df,        \* format_year_listing's result, compress_year_runs' argument
    runs,          \* compress_year_runs' result
    uploaded,      \* the uploaded file
    stage,         \* how far the script got: "start", "no_address", "no_listing", "loaded"
    raw_df,        \* the table read_input returned, columns upper-cased
    notes,         \* the st.info / st.error / st.warning / st.success messages
    df,            \* the table: df of the module level
    all_addresses, \* the selectable addresses, sorted
    subject_sel,   \* st.session_state["subject_sel"]
    adjoining_sel, \* st.session_state["adjoining_sel"]
    run_subject,   \* st.session_state["run_subject"]
    run_adjoining, \* st.session_state["run_adjoining"]
    dir_map,       \* st.session_state["dir_map"]
    dir_widget,    \* the values of the direction select boxes shown, by address
    subj_doc,      \* the rows of the subject report document of the last run
    adj_doc,       \* the rows of the adjoining report document of the last run
    subj_blocks,   \* the detail blocks rendered for the subject addresses
    adj_blocks,    \* the detail blocks rendered for the adjoining addresses
    last_action,   \* the user action that triggered the last run
    empty_apply,   \* what the installed pandas returns from SeriesGroupBy.apply on
                   \* a table without rows: "DataFrame" or "Series"
    exception      \* the exception that ended the last call or run: "none", "TypeError"

aggVars == <<df_addr, out_df, runs>>
loadVars == <<uploaded, stage, raw_df, notes>>
tableVars == <<df, all_addresses>>
sessVars == <<subject_sel, adjoining_sel, run_subject, run_adjoining, dir_map, dir_widget>>
outVars == <<subj_doc, adj_doc, subj_blocks, adj_blocks>>
runVars == <<empty_apply, exception>>
vars == <<pc, aggVars, loadVars, tableVars, sessVars, outVars, last_action, runVars>>

---------------------------------------------------------------------------
(* Python str, character level                                             *)

UpperChars == <<"A","B","C","D","E","F","G","H","I","J","K","L","M",
                "N","O","P","Q","R","S","T","U","V","W","X","Y","Z">>
LowerChars == <<"a","b","c","d","e","f","g","h","i","j","k","l","m",
                "n","o","p","q","r","s","t","u","v","w","x","y","z">>
DigitChars == <<"0","1","2","3","4","5","6","7","8","9">>

IndexIn(c, alphabet) == CHOOSE i \in 1..Len(alphabet) : alphabet[i] = c
InAlphabet(c, alphabet) == \E i \in 1..Len(alphabet) : alphabet[i] = c

IsDigit(c) == InAlphabet(c, DigitChars)
IsSpace(c) == c \in {" ", "\t", "\n"}

\* ord(c): the code point, which is what Python compares strings by.
Code(c) ==
    IF InAlphabet(c, UpperChars) THEN 64 + IndexIn(c, UpperChars)
    ELSE IF InAlphabet(c, LowerChars) THEN 96 + IndexIn(c, LowerChars)
    ELSE IF InAlphabet(c, DigitChars) THEN 47 + IndexIn(c, DigitChars)
    ELSE CASE c = "\t" -> 9
           [] c = "\n" -> 10
           [] c = " " -> 32
           [] c = "#" -> 35
           [] c = "&" -> 38
           [] c = "(" -> 40
           [] c = ")" -> 41
           [] c = "," -> 44
           [] c = "-" -> 45
           [] c = "." -> 46
           [] c = "/" -> 47
           [] c = ":" -> 58
           [] c = "_" -> 95
           [] c = "EMDASH" -> 8212

\* str.upper() on one character.
UpperChar(c) ==
    IF InAlphabet(c, LowerChars) THEN UpperChars[IndexIn(c, LowerChars)] ELSE c

PyUpper(s) == [i \in 1..Len(s) |-> UpperChar(s[i])]

\* a < b on str: the first differing code point decides, a proper prefix is less.
RECURSIVE StrLessFrom(_, _, _)
StrLessFrom(a, b, i) ==
    IF i > Len(a) THEN i <= Len(b)
    ELSE IF i > Len(b) THEN FALSE
    ELSE IF a[i] = b[i] THEN StrLessFrom(a, b, i + 1)
    ELSE Code(a[i]) < Code(b[i])

StrLess(a, b) == StrLessFrom(a, b, 1)

\* The first index >= i of s that holds no whitespace (Len(s)+1 when none).
RECURSIVE SkipSpace(_, _)
SkipSpace(s, i) ==
    IF i <= Len(s) /\ IsSpace(s[i]) THEN SkipSpace(s, i + 1) ELSE i

\* The first index >= i of s that holds no digit.
RECURSIVE SkipDigits(_, _)
SkipDigits(s, i) ==
    IF i <= Len(s) /\ IsDigit(s[i]) THEN SkipDigits(s, i + 1) ELSE i

\* The last index <= i of s that holds no whitespace (0 when none).
RECURSIVE SkipSpaceBack(_, _)
SkipSpaceBack(s, i) ==
    IF i >= 1 /\ IsSpace(s[i]) THEN SkipSpaceBack(s, i - 1) ELSE i

\* str.strip()
PyStrip(s) == SubSeq(s, SkipSpace(s, 1), SkipSpaceBack(s, Len(s)))

\* re.sub(r"\s+", " ", s)
RECURSIVE CollapseFrom(_, _)
CollapseFrom(s, i) ==
    IF i > Len(s) THEN <<>>
    ELSE IF IsSpace(s[i]) THEN <<" ">> \o CollapseFrom(s, SkipSpace(s, i))
    ELSE <<s[i]>> \o CollapseFrom(s, i + 1)

CollapseSpaces(s) == CollapseFrom(s, 1)

\* int(digits) for a run of decimal digits s[i..j].
RECURSIVE PyIntOf(_, _, _)
PyIntOf(s, i, j) ==
    IF j < i THEN 0
    ELSE 10 * PyIntOf(s, i, j - 1) + (IndexIn(s[j], DigitChars) - 1)

\* str(n) for an int.
RECURSIVE PyStrNat(_)
PyStrNat(n) ==
    IF n < 10 THEN <<DigitChars[n + 1]>>
    ELSE PyStrNat(n \div 10) \o <<DigitChars[(n % 10) + 1]>>

PyStrInt(n) == IF n < 0 THEN <<"-">> \o PyStrNat(0 - n) ELSE PyStrNat(n)

\* sep.join(parts)
RECURSIVE PyJoin(_, _)
PyJoin(sep, parts) ==
    IF parts = <<>> THEN <<>>
    ELSE IF Len(parts) = 1 THEN parts[1]
    ELSE parts[1] \o sep \o PyJoin(sep, Tail(parts))

---------------------------------------------------------------------------
(* Cells of a pandas table: missing (NaN), a str, or an int.               *)

NaN == [k |-> "nan", s |-> <<>>, n |-> 0]
StrCell(s) == [k |-> "str", s |-> s, n |-> 0]
IntCell(n) == [k |-> "int", s |-> <<>>, n |-> n]

NotNa(cell) == cell.k # "nan"

NAN_TEXT == <<"n", "a", "n">>
NA_LABEL == <<"N", "/", "A">>

\* str(cell): NaN prints as "nan".
PyStr(cell) ==
    CASE cell.k = "nan" -> NAN_TEXT
      [] cell.k = "str" -> cell.s
      [] cell.k = "int" -> PyStrInt(cell.n)

---------------------------------------------------------------------------
(* Column names the program looks for                                      *)

ADDRESS == <<"A", "D", "D", "R", "E", "S", "S">>
ADDRESS1 == <<"A", "D", "D", "R", "E", "S", "S", "1">>
ADDRESS2 == <<"A", "D", "D", "R", "E", "S", "S", "2">>
YEAR == <<"Y", "E", "A", "R">>
LISTING == <<"L", "I", "S", "T", "I", "N", "G">>
COMPANY_NAME == <<"C", "O", "M", "P", "A", "N", "Y", "_", "N", "A", "M", "E">>

\* address_patterns, in the order of the scan.
address_patterns ==
    << <<"S", "T", "R", "E", "E", "T", " ", "A", "D", "D", "R", "E", "S", "S">>,
       <<"S", "T", "R", "E", "E", "T", "_", "A", "D", "D", "R", "E", "S", "S">>,
       <<"P", "R", "O", "P", "E", "R", "T", "Y", " ", "A", "D", "D", "R", "E", "S", "S">>,
       <<"P", "R", "O", "P", "E", "R", "T", "Y", "_", "A", "D", "D", "R", "E", "S", "S">>,
       <<"S", "I", "T", "E", " ", "A", "D", "D", "R", "E", "S", "S">>,
       <<"L", "O", "C", "A", "T", "I", "O", "N">>,
       <<"S", "T", "R", "E", "E", "T">>,
       <<"A", "D", "D", "R">> >>

\* listing_patterns, in the order of the scan.
listing_patterns ==
    << <<"F", "A", "C", "I", "L", "I", "T", "Y", "_", "I", "D">>,
       <<"O", "C", "C", "U", "P", "A", "N", "T">>,
       <<"T", "E", "N", "A", "N", "T">>,
       <<"B", "U", "S", "I", "N", "E", "S", "S", "_", "N", "A", "M", "E">>,
       <<"B", "U", "S", "I", "N", "E", "S", "S">>,
       <<"C", "O", "M", "P", "A", "N", "Y">>,
       <<"N", "A", "M", "E">>,
       <<"O", "C", "C", "U", "P", "A", "N", "T", "_", "N", "A", "M", "E">> >>

---------------------------------------------------------------------------
(* Sequence helpers shared by the pandas operations                        *)

\* The elements of seq at the indices in I, from index i on, in order.
RECURSIVE PickFrom(_, _, _)
PickFrom(seq, I, i) ==
    IF i > Len(seq) THEN <<>>
    ELSE (IF i \in I THEN <<seq[i]>> ELSE <<>>) \o PickFrom(seq, I, i + 1)

\* Boolean-mask selection t[mask]: the rows at the indices in I, in order.
SelectRows(seq, I) == PickFrom(seq, I, 1)

\* A mutation of DropDuplicates: nothing is dropped.
KeepDuplicates(items) == items

\* Series.drop_duplicates() and combine_listings' seen/out loop: the first
\* occurrence of every value, in order.
RECURSIVE DropDuplicates(_)
DropDuplicates(items) ==
    IF items = <<>> THEN <<>>
    ELSE LET init == DropDuplicates(SubSeq(items, 1, Len(items) - 1))
             last == items[Len(items)]
         IN  IF \E i \in 1..Len(init) : init[i] = last THEN init
             ELSE Append(init, last)

---------------------------------------------------------------------------
(* normalize_addr, parse_address_for_sort                                  *)

\* normalize_addr on a cell (None never comes out of a table; NaN is a float
\* and prints as "nan").
normalize_addr(cell) == CollapseSpaces(PyStrip(PyStr(cell)))

\* A mutation of HouseNumber: the house number is dropped from the key.
HouseNumberZero(a_up) == 0

\* m_house = re.match(r"^\s*(\d+)", a_up); int of the group, else 0.
HouseNumber(a_up) ==
    LET i == SkipSpace(a_up, 1)
        j == SkipDigits(a_up, i)
    IN  IF j > i THEN PyIntOf(a_up, i, j - 1) ELSE 0

\* Where "#\s*\d+" matches at index i: the index of its first digit, else 0.
UnitDigitsAt(s, i) ==
    IF i <= Len(s) /\ s[i] = "#"
    THEN LET k == SkipSpace(s, i + 1)
         IN  IF k <= Len(s) /\ IsDigit(s[k]) THEN k ELSE 0
    ELSE 0

\* m_unit = re.search(r"#\s*(\d+)", a_up); int of the group, else 0.
RECURSIVE UnitNumberFrom(_, _)
UnitNumberFrom(s, i) ==
    IF i > Len(s) THEN 0
    ELSE LET k == UnitDigitsAt(s, i)
         IN  IF k > 0 THEN PyIntOf(s, k, SkipDigits(s, k) - 1)
             ELSE UnitNumberFrom(s, i + 1)

UnitNumber(a_up) == UnitNumberFrom(a_up, 1)

\* re.sub(r"^\s*\d+\s*", "", a_up)
DropHouseNumber(a_up) ==
    LET i == SkipSpace(a_up, 1)
        j == SkipDigits(a_up, i)
    IN  IF j > i THEN SubSeq(a_up, SkipSpace(a_up, j), Len(a_up)) ELSE a_up

\* Where r"\s*#\s*\d+\s*" matches at index i: the index after the match, else 0.
UnitMarkerEnd(s, i) ==
    LET k == UnitDigitsAt(s, SkipSpace(s, i))
    IN  IF k > 0 THEN SkipSpace(s, SkipDigits(s, k)) ELSE 0

\* re.sub(r"\s*#\s*\d+\s*", " ", rest), scanning from index i.
RECURSIVE DropUnitMarkersFrom(_, _)
DropUnitMarkersFrom(s, i) ==
    IF i > Len(s) THEN <<>>
    ELSE LET e == UnitMarkerEnd(s, i)
         IN  IF e > 0 THEN <<" ">> \o DropUnitMarkersFrom(s, e)
             ELSE <<s[i]>> \o DropUnitMarkersFrom(s, i + 1)

DropUnitMarkers(rest) == DropUnitMarkersFrom(rest, 1)

\* The key <<street, house, unit, a_up>>.
parse_address_for_sort(addr) ==
    LET a == normalize_addr(StrCell(addr))
        a_up == PyUpper(a)
        rest == DropUnitMarkers(DropHouseNumber(a_up))
        street == PyStrip(CollapseSpaces(rest))
    IN  <<street, HouseNumber(a_up), UnitNumber(a_up), a_up>>

\* k1 < k2 on the key tuples, as Python compares tuples.
KeyLess(k1, k2) ==
    \/ StrLess(k1[1], k2[1])
    \/ k1[1] = k2[1] /\ k1[2] < k2[2]
    \/ k1[1] = k2[1] /\ k1[2] = k2[2] /\ k1[3] < k2[3]
    \/ k1[1] = k2[1] /\ k1[2] = k2[2] /\ k1[3] = k2[3] /\ StrLess(k1[4], k2[4])

\* sorted(..., key=parse_address_for_sort) is stable: a is placed after every
\* element whose key is not greater than its own.
RECURSIVE InsertByKey(_, _)
InsertByKey(sorted, a) ==
    IF sorted = <<>> THEN <<a>>
    ELSE IF KeyLess(parse_address_for_sort(a), parse_address_for_sort(Head(sorted)))
    THEN <<a>> \o sorted
    ELSE <<Head(sorted)>> \o InsertByKey(Tail(sorted), a)

RECURSIVE SortedByKey(_)
SortedByKey(addrs) ==
    IF addrs = <<>> THEN <<>>
    ELSE InsertByKey(SortedByKey(SubSeq(addrs, 1, Len(addrs) - 1)), addrs[Len(addrs)])

---------------------------------------------------------------------------
(* read_input                                                              *)
(* An uploaded file is [kind, grid]: "csv" or "xlsx", and the sheet as a   *)
(* sequence of rows of cells, the header row among them.                   *)

UNNAMED == <<"U", "n", "n", "a", "m", "e", "d", ":", " ">>

\* for i in range(min(50, len(raw)))
HeaderScanRows == 50

\* The label pandas gives column j of a header row: the cell's text, or
\* "Unnamed: <j-1>" for an empty cell.
ColumnLabel(cell, j) ==
    IF NotNa(cell) THEN PyStr(cell) ELSE UNNAMED \o PyStrInt(j - 1)

\* df.columns = [str(c).strip().upper() for c in df.columns]
StripUpper(name) == PyUpper(PyStrip(name))

\* pd.read_csv(file) / pd.read_excel(xls, header=h): row h (from 0) of the
\* grid names the columns, the rows below it are the data.
ReadTable(grid, h) ==
    LET names == [j \in 1..Len(grid[h + 1]) |-> StripUpper(ColumnLabel(grid[h + 1][j], j))]
        cols == {names[j] : j \in 1..Len(names)}
        At(c) == CHOOSE j \in 1..Len(names) : names[j] = c
    IN  [cols |-> cols,
         rows |-> [i \in 1..(Len(grid) - h - 1) |-> [c \in cols |-> grid[h + 1 + i][At(c)]]]]

\* The cells of one column, top to bottom.
Column(t, col) == [i \in 1..Len(t.rows) |-> t.rows[i][col]]

\* df[col] = cells: the column is added, or replaced when it exists.
WithColumn(t, col, cells) ==
    [cols |-> t.cols \cup {col},
     rows |-> [i \in 1..Len(t.rows) |->
                 [c \in t.cols \cup {col} |-> IF c = col THEN cells[i] ELSE t.rows[i][c]]]]

\* A mutation of FFill: nothing is filled.
FFillNothing(cells) == cells

\* Series.ffill(): a missing cell takes the last value that is not missing
\* above it; missing cells above the first value stay missing.
RECURSIVE FFill(_)
FFill(cells) ==
    IF cells = <<>> THEN <<>>
    ELSE LET init == FFill(SubSeq(cells, 1, Len(cells) - 1))
             last == cells[Len(cells)]
         IN  Append(init, IF NotNa(last) \/ init = <<>> THEN last ELSE init[Len(init)])

\* .apply(normalize_addr): every cell becomes a normalized str.
NormalizeColumn(cells) == [i \in 1..Len(cells) |-> StrCell(normalize_addr(cells[i]))]

\* if "ADDRESS" in df.columns: df["ADDRESS"] = df["ADDRESS"].ffill().apply(normalize_addr)
FillAddress(t) ==
    IF ADDRESS \in t.cols
    THEN WithColumn(t, ADDRESS, NormalizeColumn(FFill(Column(t, ADDRESS))))
    ELSE t

\* raw.iloc[i].astype(str).str.upper().tolist()
RowVals(row) == {PyUpper(PyStr(row[j])) : j \in 1..Len(row)}

ScannedRows(grid) ==
    1..(IF Len(grid) < HeaderScanRows THEN Len(grid) ELSE HeaderScanRows)

\* The two scans for the header row; the row index from 0, or -1 for None.
HeaderRow(grid) ==
    LET eris == {i \in ScannedRows(grid) :
                    ADDRESS \in RowVals(grid[i]) /\ YEAR \in RowVals(grid[i])}
        other == {i \in ScannedRows(grid) :
                    ADDRESS1 \in RowVals(grid[i]) \/ COMPANY_NAME \in RowVals(grid[i])}
        First(I) == CHOOSE i \in I : \A j \in I : i <= j
    IN  IF eris # {} THEN First(eris) - 1
        ELSE IF other # {} THEN First(other) - 1
        ELSE 0 - 1

\* df = df[df["YEAR"].notna()], only when the column exists.
DropRowsWithoutYear(t) ==
    IF YEAR \in t.cols
    THEN [cols |-> t.cols,
          rows |-> SelectRows(t.rows, {i \in 1..Len(t.rows) : NotNa(t.rows[i][YEAR])})]
    ELSE t

read_input(file) ==
    IF file.kind = "csv" THEN FillAddress(ReadTable(file.grid, 0))
    ELSE LET header_row == HeaderRow(file.grid)
         IN  IF header_row < 0 THEN FillAddress(ReadTable(file.grid, 0))
             ELSE FillAddress(DropRowsWithoutYear(ReadTable(file.grid, header_row)))

---------------------------------------------------------------------------
(* find_and_combine_address_columns, find_listing_column                   *)
(* Both return [t, notes]: the table and the st.info messages, a message   *)
(* being [tag, cols].                                                      *)

Note(tag, cols) == [tag |-> tag, cols |-> cols]

\* "X" in cols_upper, for cols_upper = {col.upper(): col for col in df.columns}
HasColumn(t, name) == \E c \in t.cols : PyUpper(c) = name

\* cols_upper["X"]
ColumnNamed(t, name) == CHOOSE c \in t.cols : PyUpper(c) = name

\* combine_addresses(row)
combine_addresses(c1, c2) ==
    LET a1 == IF NotNa(c1) THEN PyStrip(PyStr(c1)) ELSE <<>>
        a2 == IF NotNa(c2) THEN PyStrip(PyStr(c2)) ELSE <<>>
        combined == PyStrip(a1 \o <<" ">> \o a2)
    IN  StrCell(normalize_addr(StrCell(combined)))

\* The first pattern of the list, from index i on, that names a column; 0 when
\* none does.
RECURSIVE FirstPattern(_, _, _)
FirstPattern(t, patterns, i) ==
    IF i > Len(patterns) THEN 0
    ELSE IF HasColumn(t, patterns[i]) THEN i
    ELSE FirstPattern(t, patterns, i + 1)

\* A mutation of AddressRule: ADDRESS1 + ADDRESS2 is tried before ADDRESS.
AddressRuleCombineFirst(t) ==
    IF HasColumn(t, ADDRESS1) /\ HasColumn(t, ADDRESS2) THEN "combine"
    ELSE IF HasColumn(t, ADDRESS) THEN "address"
    ELSE IF HasColumn(t, ADDRESS1) THEN "address1"
    ELSE IF FirstPattern(t, address_patterns, 1) > 0 THEN "pattern"
    ELSE "none"

\* Which of the four patterns of find_and_combine_address_columns applies.
AddressRule(t) ==
    IF HasColumn(t, ADDRESS) THEN "address"
    ELSE IF HasColumn(t, ADDRESS1) /\ HasColumn(t, ADDRESS2) THEN "combine"
    ELSE IF HasColumn(t, ADDRESS1) THEN "address1"
    ELSE IF FirstPattern(t, address_patterns, 1) > 0 THEN "pattern"
    ELSE "none"

find_and_combine_address_columns(t) ==
    LET rule == AddressRule(t)
    IN  CASE rule = "address" ->
               [t |-> WithColumn(t, ADDRESS,
                          NormalizeColumn(Column(t, ColumnNamed(t, ADDRESS)))),
                notes |-> <<>>]
          [] rule = "combine" ->
               LET addr1_col == ColumnNamed(t, ADDRESS1)
                   addr2_col == ColumnNamed(t, ADDRESS2)
               IN  [t |-> WithColumn(t, ADDRESS,
                              [i \in 1..Len(t.rows) |->
                                  combine_addresses(t.rows[i][addr1_col], t.rows[i][addr2_col])]),
                    notes |-> <<Note("combined", <<addr1_col, addr2_col>>)>>]
          [] rule = "address1" ->
               [t |-> WithColumn(t, ADDRESS,
                          NormalizeColumn(Column(t, ColumnNamed(t, ADDRESS1)))),
                notes |-> <<Note("using_as_address", <<ColumnNamed(t, ADDRESS1)>>)>>]
          [] rule = "pattern" ->
               LET col == ColumnNamed(t, address_patterns[FirstPattern(t, address_patterns, 1)])
               IN  [t |-> WithColumn(t, ADDRESS, NormalizeColumn(Column(t, col))),
                    notes |-> <<Note("using_as_address", <<col>>)>>]
          [] rule = "none" -> [t |-> t, notes |-> <<>>]

find_listing_column(t) ==
    IF HasColumn(t, LISTING) THEN [t |-> t, notes |-> <<>>]
    ELSE IF HasColumn(t, COMPANY_NAME)
    THEN [t |-> WithColumn(t, LISTING, Column(t, ColumnNamed(t, COMPANY_NAME))),
          notes |-> <<Note("using_as_listing", <<ColumnNamed(t, COMPANY_NAME)>>)>>]
    ELSE IF FirstPattern(t, listing_patterns, 1) > 0
    THEN LET col == ColumnNamed(t, listing_patterns[FirstPattern(t, listing_patterns, 1)])
         IN  [t |-> WithColumn(t, LISTING, Column(t, col)),
              notes |-> <<Note("using_as_listing", <<col>>)>>]
    ELSE [t |-> t, notes |-> <<>>]

\* df.columns = [c.upper() for c in df.columns]
UpperColumns(t) ==
    [cols |-> {PyUpper(c) : c \in t.cols},
     rows |-> [i \in 1..Len(t.rows) |->
                 [c \in {PyUpper(x) : x \in t.cols} |->
                     t.rows[i][CHOOSE x \in t.cols : PyUpper(x) = c]]]]

\* all_addresses: the distinct values of ADDRESS in first-seen order, NaN and
\* blank ones left out, sorted by parse_address_for_sort.
AllAddresses(t) ==
    LET cells == Column(t, ADDRESS)
        present == SelectRows(cells, {i \in 1..Len(cells) : NotNa(cells[i])})
        unique == DropDuplicates(present)
        shown == SelectRows(unique, {i \in 1..Len(unique) : PyStrip(PyStr(unique[i])) # <<>>})
    IN  SortedByKey([i \in 1..Len(shown) |-> PyStr(shown[i])])

\* A mutation of LoadFile: the script does not stop when no ADDRESS column
\* was found.
LoadFileWithoutAddressStop(file) ==
    LET raw == UpperColumns(read_input(file))
        a == find_and_combine_address_columns(raw)
        l == find_listing_column(a.t)
    IN  IF LISTING \notin l.t.cols
        THEN [stage |-> "no_listing", raw |-> raw, t |-> l.t, addrs |-> <<>>,
              notes |-> a.notes \o l.notes \o <<Note("error_no_listing", <<>>)>>]
        ELSE [stage |-> "loaded", raw |-> raw, t |-> l.t,
              addrs |-> IF ADDRESS \in l.t.cols THEN AllAddresses(l.t) ELSE <<>>,
              notes |-> a.notes \o l.notes \o <<Note("success", <<>>)>>]

\* The script from the upload to the address list: [stage, raw, t, notes,
\* addrs].  raw is the table read_input returns (columns upper-cased); stage is
\* "no_address" or "no_listing" when st.stop() ends the run, else "loaded".
LoadFile(file) ==
    LET raw == UpperColumns(read_input(file))
        a == find_and_combine_address_columns(raw)
        l == find_listing_column(a.t)
    IN  IF ADDRESS \notin a.t.cols
        THEN [stage |-> "no_address", raw |-> raw, t |-> a.t, addrs |-> <<>>,
              notes |-> a.notes \o <<Note("error_no_address", <<>>)>>]
        ELSE IF LISTING \notin l.t.cols
        THEN [stage |-> "no_listing", raw |-> raw, t |-> l.t, addrs |-> <<>>,
              notes |-> a.notes \o l.notes \o <<Note("error_no_listing", <<>>)>>]
        ELSE [stage |-> "loaded", raw |-> raw, t |-> l.t, addrs |-> AllAddresses(l.t),
              notes |-> a.notes \o l.notes
                          \o (IF YEAR \notin l.t.cols THEN <<Note("warning_no_year", <<>>)>>
                              ELSE <<>>)
                          \o <<Note("success", <<>>)>>]

---------------------------------------------------------------------------
(* compress_year_runs                                                      *)
(* out_df is the sequence of rows [year, occ] of the "Year(s)" and         *)
(* "Occupant Listed" columns; the result is a sequence of <<label, occ>>.  *)

\* A mutation of Contiguous: any later year continues the run.
ContiguousAnyGap(y, prev_y) == y > prev_y

\* contiguous = (y == prev_y + 1)
Contiguous(y, prev_y) == y = prev_y + 1

\* label = f"{start_y}-{prev_y}" if start_y != prev_y else f"{start_y}"
RunLabel(start_y, prev_y) ==
    IF start_y # prev_y
    THEN PyStrInt(start_y) \o <<"-">> \o PyStrInt(prev_y)
    ELSE PyStrInt(start_y)

\* The for loop from row i on, and the final append after it.
RECURSIVE CompressLoop(_, _, _, _, _, _)
CompressLoop(rows_in, i, start_y, prev_y, prev_occ, rows) ==
    IF i > Len(rows_in)
    THEN Append(rows, <<RunLabel(start_y, prev_y), prev_occ>>)
    ELSE LET y == rows_in[i].year.n
             occ == rows_in[i].occ
         IN  IF Contiguous(y, prev_y) /\ occ = prev_occ
             THEN CompressLoop(rows_in, i + 1, start_y, y, prev_occ, rows)
             ELSE CompressLoop(rows_in, i + 1, y, y, occ,
                      Append(rows, <<RunLabel(start_y, prev_y), prev_occ>>))

compress_year_runs(rows_in) ==
    IF rows_in = <<>> THEN <<>>
    ELSE IF \A i \in 1..Len(rows_in) : PyStr(rows_in[i].year) = NA_LABEL
    THEN [i \in 1..Len(rows_in) |-> <<PyStr(rows_in[i].year), rows_in[i].occ>>]
    ELSE CompressLoop(rows_in, 2, rows_in[1].year.n, rows_in[1].year.n,
                      rows_in[1].occ, <<>>)

---------------------------------------------------------------------------
(* format_year_listing                                                     *)
(* A table is [cols, rows]: the set of column names and the sequence of    *)
(* rows, each a function from the column names to cells.                   *)

COMMA_SPACE == <<",", " ">>

\* pd.to_numeric(cell, errors="coerce"): an int stays, a str of decimal digits
\* is read as that number, anything else becomes NaN.
ToNumeric(cell) ==
    CASE cell.k = "int" -> cell
      [] cell.k = "nan" -> NaN
      [] cell.k = "str" ->
            IF cell.s # <<>> /\ \A i \in 1..Len(cell.s) : IsDigit(cell.s[i])
            THEN IntCell(PyIntOf(cell.s, 1, Len(cell.s)))
            ELSE NaN

\* t["LISTING"].astype(str).str.strip() on one cell.
ListingText(cell) == PyStrip(PyStr(cell))

\* Format WITHOUT year data: one "N/A" row per distinct non-empty listing.
FormatWithoutYear(block) ==
    LET texts == [i \in 1..Len(block.rows) |-> ListingText(block.rows[i][LISTING])]
        nonempty == SelectRows(texts, {i \in 1..Len(texts) : Len(texts[i]) > 0})
        unique_listings == DropDuplicates(nonempty)
    IN  [i \in 1..Len(unique_listings) |->
            [year |-> StrCell(NA_LABEL), occ |-> unique_listings[i]]]

\* A mutation of YearListingLess: the rows are ordered by YEAR alone.
YearOnlyLess(a, b) == a.year < b.year

\* The order of sort_values(["YEAR", "LISTING"], ascending=[True, True]).
YearListingLess(a, b) ==
    \/ a.year < b.year
    \/ a.year = b.year /\ StrLess(a.listing, b.listing)

\* Insert row r into the sorted sequence after every row not greater than it
\* (the sort is stable).
RECURSIVE InsertRow(_, _)
InsertRow(sorted, r) ==
    IF sorted = <<>> THEN <<r>>
    ELSE IF YearListingLess(r, Head(sorted)) THEN <<r>> \o sorted
    ELSE <<Head(sorted)>> \o InsertRow(Tail(sorted), r)

RECURSIVE SortValues(_)
SortValues(t) ==
    IF t = <<>> THEN <<>>
    ELSE InsertRow(SortValues(SubSeq(t, 1, Len(t) - 1)), t[Len(t)])

\* combine_listings: the listings of one group, duplicates dropped, joined.
combine_listings(series) == PyJoin(COMMA_SPACE, DropDuplicates(series))

\* groupby("YEAR")["LISTING"].apply(combine_listings) on rows sorted by YEAR:
\* one output row per year, in the order of the years.
RECURSIVE GroupByYear(_)
GroupByYear(sorted) ==
    IF sorted = <<>> THEN <<>>
    ELSE LET y == Head(sorted).year
             grp == SelectRows(sorted, {i \in 1..Len(sorted) : sorted[i].year = y})
             others == SelectRows(sorted, {i \in 1..Len(sorted) : sorted[i].year # y})
         IN  <<[year |-> IntCell(y),
                occ |-> combine_listings([i \in 1..Len(grp) |-> grp[i].listing])]>>
             \o GroupByYear(others)

\* What groupby("YEAR", as_index=False)["LISTING"].apply(...) returns on a
\* table without rows depends on the pandas installed: a DataFrame without
\* rows, or (pandas 2.x, where the selection is a SeriesGroupBy and apply
\* returns early when there is no group) a Series without rows, on which
\* .rename(columns=...) raises TypeError.
EmptyApplyResults == {"DataFrame", "Series"}

\* Format WITH year data: [raised, rows].
FormatWithYear(block) ==
    LET t0 == [i \in 1..Len(block.rows) |->
                  [ycell |-> ToNumeric(block.rows[i][YEAR]),
                   listing |-> ListingText(block.rows[i][LISTING])]]
        t1 == SelectRows(t0, {i \in 1..Len(t0) : NotNa(t0[i].ycell)})
        t2 == [i \in 1..Len(t1) |-> [year |-> t1[i].ycell.n, listing |-> t1[i].listing]]
        t == SelectRows(t2, {i \in 1..Len(t2) : Len(t2[i].listing) > 0})
    IN  IF t = <<>> /\ empty_apply = "Series"
        THEN [raised |-> TRUE, rows |-> <<>>]
        ELSE [raised |-> FALSE, rows |-> GroupByYear(SortValues(t))]

\* The result is [raised, rows]: raised says that the call ended in the
\* TypeError, rows is the table returned otherwise.
format_year_listing(block) ==
    LET has_year == YEAR \in block.cols
    IN  IF ~has_year /\ LISTING \notin block.cols THEN [raised |-> FALSE, rows |-> <<>>]
        ELSE IF ~has_year THEN [raised |-> FALSE, rows |-> FormatWithoutYear(block)]
        ELSE IF LISTING \notin block.cols THEN [raised |-> FALSE, rows |-> <<>>]
        ELSE FormatWithYear(block)

---------------------------------------------------------------------------
(* build_subject_report_docx, build_adjoining_report_docx                  *)
(* A document is the sequence of the rows added to its table after the     *)
(* header row, each row the sequence of its cell texts.  A builder gives   *)
(* [raised, rows]: raised when format_year_listing raised inside it.       *)

NO_RESULTS == <<"N", "o", " ", "r", "e", "s", "u", "l", "t", "s">>
EM_DASH == <<" ", "EMDASH", " ">>
NEWLINE == <<"\n">>

\* df[df["ADDRESS"] == addr]
Block(t, addr) ==
    [cols |-> t.cols,
     rows |-> SelectRows(t.rows, {i \in 1..Len(t.rows) : t.rows[i][ADDRESS] = StrCell(addr)})]

\* The rows added for one address with runs rs.
SubjectEntries(addr, rs) ==
    IF rs = <<>>
    THEN <<<<<<>>, addr \o EM_DASH \o NO_RESULTS>>>>
    ELSE [i \in 1..Len(rs) |-> <<rs[i][1], addr \o EM_DASH \o rs[i][2]>>]

\* The body of the loop of build_subject_report_docx once out is computed.
SubjectRowsOf(addr, out) ==
    IF out.raised THEN [raised |-> TRUE, rows |-> <<>>]
    ELSE [raised |-> FALSE, rows |-> SubjectEntries(addr, compress_year_runs(out.rows))]

\* The body of the loop of build_subject_report_docx for one address.
SubjectRows(addr, t) == SubjectRowsOf(addr, format_year_listing(Block(t, addr)))

\* The document after the rows of one address and the rows of the rest; an
\* exception leaves no document.
Joined(first, rest) ==
    IF first.raised \/ rest.raised THEN [raised |-> TRUE, rows |-> <<>>]
    ELSE [raised |-> FALSE, rows |-> first.rows \o rest.rows]

RECURSIVE build_subject_report_docx(_, _)
build_subject_report_docx(subject_selected, t) ==
    IF subject_selected = <<>> THEN [raised |-> FALSE, rows |-> <<>>]
    ELSE Joined(SubjectRows(Head(subject_selected), t),
                build_subject_report_docx(Tail(subject_selected), t))

\* direction_map.get(addr, "")
DirectionOf(direction_map, addr) ==
    IF addr \in DOMAIN direction_map THEN direction_map[addr] ELSE <<>>

\* lines: one per run whose occupant text is not empty.
OccupantLines(rs) ==
    LET kept == SelectRows(rs, {i \in 1..Len(rs) : rs[i][2] # <<>>})
    IN  [i \in 1..Len(kept) |-> kept[i][2] \o <<" ", "(">> \o kept[i][1] \o <<")">>]

\* occ_text = "\n".join(lines) if lines else "No results"
OccupantText(lines) == IF lines # <<>> THEN PyJoin(NEWLINE, lines) ELSE NO_RESULTS

\* The body of the loop of build_adjoining_report_docx once out is computed.
AdjoiningRowOf(addr, out, direction_map) ==
    IF out.raised THEN [raised |-> TRUE, rows |-> <<>>]
    ELSE [raised |-> FALSE,
          rows |-> <<<<DirectionOf(direction_map, addr), addr,
                       OccupantText(OccupantLines(compress_year_runs(out.rows)))>>>>]

\* The body of the loop of build_adjoining_report_docx for one address.
AdjoiningRow(addr, t, direction_map) ==
    AdjoiningRowOf(addr, format_year_listing(Block(t, addr)), direction_map)

RECURSIVE build_adjoining_report_docx(_, _, _)
build_adjoining_report_docx(adjoining_selected, t, direction_map) ==
    IF adjoining_selected = <<>> THEN [raised |-> FALSE, rows |-> <<>>]
    ELSE Joined(AdjoiningRow(Head(adjoining_selected), t, direction_map),
                build_adjoining_report_docx(Tail(adjoining_selected), t, direction_map))

---------------------------------------------------------------------------
(* The script below the upload: session state, callbacks, the output       *)
(* columns.  Every user action runs its callback and then the whole script *)
(* again; an action of the model is the callback and that run.             *)

SUBJECT_PROPERTY == "Subject Property"
ADJOINING_PROPERTY == "Adjoining Property"

dir_opts == <<<<>>, <<"N", "o", "r", "t", "h">>, <<"E", "a", "s", "t">>,
              <<"S", "o", "u", "t", "h">>, <<"W", "e", "s", "t">>>>

Range(seq) == {seq[i] : i \in 1..Len(seq)}

\* A mutation of clear_all: the direction map is left as it is.
clear_all_keeps_dir_map(session) ==
    [session EXCEPT !.subject_sel = <<>>, !.adjoining_sel = <<>>,
                    !.run_subject = FALSE, !.run_adjoining = FALSE]

\* def clear_all(): the session state it leaves.
clear_all(session) ==
    [session EXCEPT !.subject_sel = <<>>, !.adjoining_sel = <<>>,
                    !.run_subject = FALSE, !.run_adjoining = FALSE,
                    !.dir_map = <<>>]

\* A mutation of render_block: the table shows the compressed runs of out_df.
render_block_of_runs(addr, kind, rows) ==
    [addr |-> addr, kind |-> kind,
     rows |-> IF rows = <<>> THEN <<<<NO_RESULTS>>>>
              ELSE [i \in 1..Len(compress_year_runs(rows)) |->
                       <<PyStrip(compress_year_runs(rows)[i][1]),
                         PyStrip(compress_year_runs(rows)[i][2])>>]]

\* render_block: the address, the kind and the rows of the table shown; the
\* one-cell row "No results" when out_df has no rows.
render_block(addr, kind, rows) ==
    [addr |-> addr, kind |-> kind,
     rows |-> IF rows = <<>> THEN <<<<NO_RESULTS>>>>
              ELSE [i \in 1..Len(rows) |->
                       <<PyStrip(PyStr(rows[i].year)), PyStrip(rows[i].occ)>>]]

\* A block rendered, then the rest of the loop.
BlockThen(block, rest) == [raised |-> rest.raised, blocks |-> <<block>> \o rest.blocks]

\* The loop that renders the detail blocks: [raised, blocks], the blocks
\* rendered before format_year_listing raised, if it did.
RECURSIVE RenderBlocks(_, _, _)
RECURSIVE RenderFrom(_, _, _, _)
RenderFrom(out, selected, kind, t) ==
    IF out.raised THEN [raised |-> TRUE, blocks |-> <<>>]
    ELSE BlockThen(render_block(Head(selected), kind, out.rows),
                   RenderBlocks(Tail(selected), kind, t))

RenderBlocks(selected, kind, t) ==
    IF selected = <<>> THEN [raised |-> FALSE, blocks |-> <<>>]
    ELSE RenderFrom(format_year_listing(Block(t, Head(selected))), selected, kind, t)

\* picked = st.selectbox(a, dir_opts, index=..., key=key): the value the
\* widget holds when it was shown in the run before, else the option at index,
\* the entry of the map, which is "" when the entry was just inserted.
Picked(a, dm, dw) ==
    IF a \in DOMAIN dw THEN dw[a]
    ELSE IF a \in DOMAIN dm THEN dm[a]
    ELSE dir_opts[1]

\* The direction map after the loop over the selected adjoining addresses.
DirMapAfterWidgets(adjoining_selected, dm, dw) ==
    [a \in DOMAIN dm \cup Range(adjoining_selected) |->
        IF a \in Range(adjoining_selected) THEN Picked(a, dm, dw) ELSE dm[a]]

\* The values of the select boxes shown.
WidgetsShown(adjoining_selected, dm, dw) ==
    [a \in Range(adjoining_selected) |-> Picked(a, dm, dw)]

\* with out_left: what the column leaves once the blocks are rendered.
SubjectOutput(sb, subject_selected, t) ==
    [raised |-> sb.raised, blocks |-> sb.blocks,
     doc |-> IF sb.raised THEN <<>>
             ELSE build_subject_report_docx(subject_selected, t).rows]

SubjectColumn(t, session) ==
    IF session.run_subject /\ session.subject_sel # <<>>
    THEN SubjectOutput(RenderBlocks(session.subject_sel, SUBJECT_PROPERTY, t),
                       session.subject_sel, t)
    ELSE [raised |-> FALSE, blocks |-> <<>>, doc |-> <<>>]

\* with out_right: what the column leaves once the select boxes are shown
\* (the map is then dm) and the blocks are rendered.
AdjoiningOutput(dm, widgets, ab, adjoining_selected, t) ==
    [dir_map |-> dm, dir_widget |-> widgets,
     raised |-> ab.raised, blocks |-> ab.blocks,
     doc |-> IF ab.raised THEN <<>>
             ELSE build_adjoining_report_docx(adjoining_selected, t, dm).rows]

\* A column that shows nothing: a widget not shown in a run loses its value.
NothingShown(session) ==
    [dir_map |-> session.dir_map, dir_widget |-> <<>>,
     raised |-> FALSE, blocks |-> <<>>, doc |-> <<>>]

AdjoiningColumn(t, session, dw) ==
    IF session.run_adjoining /\ session.adjoining_sel # <<>>
    THEN AdjoiningOutput(DirMapAfterWidgets(session.adjoining_sel, session.dir_map, dw),
                         WidgetsShown(session.adjoining_sel, session.dir_map, dw),
                         RenderBlocks(session.adjoining_sel, ADJOINING_PROPERTY, t),
                         session.adjoining_sel, t)
    ELSE NothingShown(session)

\* What a run leaves, from what its two columns leave.
RunResult(left, right) ==
    [dir_map |-> right.dir_map, dir_widget |-> right.dir_widget,
     subj_blocks |-> left.blocks, subj_doc |-> left.doc,
     adj_blocks |-> right.blocks, adj_doc |-> right.doc,
     exception |-> IF left.raised \/ right.raised THEN "TypeError" ELSE "none"]

\* The right column runs unless the left one ended the run.
AfterSubjectColumn(left, t, session, dw) ==
    IF left.raised THEN RunResult(left, NothingShown(session))
    ELSE RunResult(left, AdjoiningColumn(t, session, dw))

\* One run of the script from the output columns on, for session state
\* session and the widget values dw: what it leaves in the direction map and
\* the widgets, what it renders, the documents it builds, and the exception
\* that ended it, if any.
RunScript(t, session, dw) == AfterSubjectColumn(SubjectColumn(t, session), t, session, dw)

---------------------------------------------------------------------------
(* Harness for compress_year_runs: every table sorted ascending by         *)
(* distinct integer year, over a window of years and a few occupant texts. *)

MaxYears == 5
YearWindow == 1970..(1970 + MaxYears - 1)

OccA == <<"A">>
OccB == <<"B">>
OccTexts == {OccA, OccB}

\* The years of Y in ascending order.
RECURSIVE AscendingSeq(_)
AscendingSeq(Y) ==
    IF Y = {} THEN <<>>
    ELSE LET m == CHOOSE y \in Y : \A z \in Y : y <= z
         IN  <<m>> \o AscendingSeq(Y \ {m})

SortedYearTables ==
    UNION { LET ys == AscendingSeq(Y)
            IN  { [i \in 1..Len(ys) |-> [year |-> IntCell(ys[i]), occ |-> f[ys[i]]]]
                  : f \in [Y -> OccTexts] }
          : Y \in SUBSET YearWindow }

SeqsUpTo(S, n) == UNION {[1..m -> S] : m \in 0..n}

NoDf == [cols |-> {}, rows |-> <<>>]

NoFile == [kind |-> "none", grid |-> <<>>]
NoMap == <<>>
NoDoc == <<>>

\* The variables a harness does not use keep these values.
AggIdle == df_addr = NoDf /\ out_df = <<>> /\ runs = <<>>
LoadIdle == uploaded = NoFile /\ stage = "start" /\ raw_df = NoDf /\ notes = <<>>
TableIdle == df = NoDf /\ all_addresses = <<>>
SessIdle ==
    /\ subject_sel = <<>> /\ adjoining_sel = <<>>
    /\ run_subject = FALSE /\ run_adjoining = FALSE
    /\ dir_map = NoMap /\ dir_widget = NoMap
OutIdle ==
    /\ subj_doc = NoDoc /\ adj_doc = NoDoc
    /\ subj_blocks = <<>> /\ adj_blocks = <<>>
    /\ last_action = "none"
    /\ exception = "none"

\* What pandas returns on an empty table is fixed where format_year_listing
\* is never called.
AnyPandas == empty_apply = "DataFrame"

InitCompress ==
    /\ pc = "compress"
    /\ df_addr = NoDf
    /\ out_df \in SortedYearTables
    /\ runs = <<>>
    /\ LoadIdle /\ TableIdle /\ SessIdle /\ OutIdle /\ AnyPandas

Compress ==
    /\ pc = "compress"
    /\ runs' = compress_year_runs(out_df)
    /\ pc' = "done"
    /\ UNCHANGED <<df_addr, out_df, loadVars, tableVars, sessVars, outVars, last_action, runVars>>

NextCompress == Compress

SpecCompress == InitCompress /\ [][NextCompress]_vars

---------------------------------------------------------------------------
(* Harness for format_year_listing followed by compress_year_runs: the     *)
(* rows of one address, in file order, with and without a YEAR column.     *)

MaxRows == 3

AcmeCo == <<"A", "c", "m", "e", " ", "C", "o">>
BetaInc == <<"B", "e", "t", "a", " ", "I", "n", "c">>
AcmeCoPadded == <<" ", "A", "c", "m", "e", " ", "C", "o", " ">>

ListingCells == {StrCell(AcmeCo), StrCell(BetaInc), StrCell(AcmeCoPadded), StrCell(<<>>)}
YearCells == {IntCell(1980), IntCell(1981), StrCell(<<"1", "9", "7", "9">>), NaN}

DfAddrInputs ==
    {[cols |-> {YEAR, LISTING},
      rows |-> [i \in 1..Len(p) |-> (YEAR :> p[i][1]) @@ (LISTING :> p[i][2])]]
        : p \in SeqsUpTo(YearCells \X ListingCells, MaxRows)}
    \cup
    {[cols |-> {LISTING}, rows |-> [i \in 1..Len(p) |-> (LISTING :> p[i])]]
        : p \in SeqsUpTo(ListingCells, MaxRows)}

InitFormat ==
    /\ pc = "format"
    /\ df_addr \in DfAddrInputs
    /\ out_df = <<>>
    /\ runs = <<>>
    /\ LoadIdle /\ TableIdle /\ SessIdle /\ OutIdle
    /\ empty_apply \in EmptyApplyResults

Format ==
    /\ pc = "format"
    /\ \E r \in {format_year_listing(df_addr)} :
           /\ out_df' = r.rows
           /\ exception' = IF r.raised THEN "TypeError" ELSE "none"
           /\ pc' = IF r.raised THEN "done" ELSE "compress"
    /\ UNCHANGED <<df_addr, runs, loadVars, tableVars, sessVars, outVars, last_action,
                   empty_apply>>

NextFormat == Format \/ Compress

SpecFormat == InitFormat /\ [][NextFormat]_vars

---------------------------------------------------------------------------
(* Harness for the address list: tables whose ADDRESS column is drawn from *)
(* a pool of addresses, and the list of the specification's example.       *)

MaxAddrRows == 3

Addr_123MainSt2 == <<"1", "2", "3", " ", "M", "a", "i", "n", " ", "S", "t", " ", "#", "2">>
Addr_123MainSt1 == <<"1", "2", "3", " ", "M", "a", "i", "n", " ", "S", "t", " ", "#", "1">>
Addr_123MainSt10 == <<"1", "2", "3", " ", "M", "a", "i", "n", " ", "S", "t", " ", "#", "1", "0">>
Addr_45MainSt == <<"4", "5", " ", "M", "a", "i", "n", " ", "S", "t">>
Addr_123ElmSt == <<"1", "2", "3", " ", "E", "l", "m", " ", "S", "t">>
Addr_MainSt == <<"M", "a", "i", "n", " ", "S", "t">>
Addr_123mainst1 == <<"1", "2", "3", " ", "m", "a", "i", "n", " ", "s", "t", " ", "#", "1">>
Addr_Unit5_7Oak == <<"#", "5", " ", "7", " ", "O", "a", "k", " ", "#", "6">>

AddressPool ==
    {Addr_123MainSt2, Addr_123MainSt1, Addr_123MainSt10, Addr_45MainSt, Addr_123ElmSt,
     Addr_MainSt, Addr_123mainst1, Addr_Unit5_7Oak, <<>>}

ExampleAddresses == <<Addr_123MainSt2, Addr_123MainSt1, Addr_45MainSt, Addr_123ElmSt>>

AddressTable(addrs) ==
    [cols |-> {ADDRESS}, rows |-> [i \in 1..Len(addrs) |-> (ADDRESS :> StrCell(addrs[i]))]]

AddressTables ==
    {AddressTable(addrs) : addrs \in SeqsUpTo(AddressPool, MaxAddrRows) \cup {ExampleAddresses}}

InitSort ==
    /\ pc = "sort"
    /\ df \in AddressTables
    /\ all_addresses = <<>>
    /\ AggIdle /\ LoadIdle /\ SessIdle /\ OutIdle /\ AnyPandas

ListAddresses ==
    /\ pc = "sort"
    /\ all_addresses' = AllAddresses(df)
    /\ pc' = "done"
    /\ UNCHANGED <<df, aggVars, loadVars, sessVars, outVars, last_action, runVars>>

NextSort == ListAddresses

SpecSort == InitSort /\ [][NextSort]_vars

---------------------------------------------------------------------------
(* Harness for the upload: files built from a header row, data rows and a  *)
(* number of title rows above the header.                                  *)

MaxFileRows == 3
MaxSynonyms == 2

\* str.lower(), to write headers in lower case.
PyLower(s) ==
    [i \in 1..Len(s) |->
        IF InAlphabet(s[i], UpperChars) THEN LowerChars[IndexIn(s[i], UpperChars)] ELSE s[i]]

HeaderStyles == {"upper", "lower", "padded"}

Styled(name, style) ==
    CASE style = "upper" -> name
      [] style = "lower" -> PyLower(name)
      [] style = "padded" -> <<" ">> \o name \o <<" ">>

TitleRow(width) ==
    [j \in 1..width |-> IF j = 1 THEN StrCell(<<"R", "e", "p", "o", "r", "t">>) ELSE NaN]

\* offset title rows, the header row, the data rows.
MakeGrid(offset, header, rows) ==
    [i \in 1..offset |-> TitleRow(Len(header))]
    \o <<[j \in 1..Len(header) |-> StrCell(header[j])]>>
    \o rows

\* The elements of seq that are in S, in the order of seq.
Restrict(seq, S) == SelectRows(seq, {i \in 1..Len(seq) : seq[i] \in S})

AddressLikeColumns == <<ADDRESS2, ADDRESS1>> \o address_patterns \o <<ADDRESS>>

\* The text of the cell of column c in data row i: "<i>  <c> ", which names
\* its column and is not normalized.
CellText(c, i) == PyStrInt(i) \o <<" ", " ">> \o c \o <<" ">>


\* Files that differ in the address columns they hold: any of ADDRESS, ADDRESS1,
\* ADDRESS2 and up to MaxSynonyms of the other names; two data rows, ADDRESS2
\* empty in the second.
SchemaFiles ==
    {[kind |-> "csv",
      grid |-> LET names == Restrict(AddressLikeColumns, B \cup S) \o <<LISTING, YEAR>>
                   Cell(c, i) ==
                       IF c = LISTING THEN StrCell(IF i = 1 THEN AcmeCo ELSE BetaInc)
                       ELSE IF c = YEAR THEN IntCell(1980)
                       ELSE IF c = ADDRESS2 /\ i = 2 THEN NaN
                       ELSE StrCell(CellText(c, i))
               IN  MakeGrid(0, [j \in 1..Len(names) |-> Styled(names[j], style)],
                            [i \in 1..2 |-> [j \in 1..Len(names) |-> Cell(names[j], i)]])]
        : B \in SUBSET {ADDRESS, ADDRESS1, ADDRESS2},
          S \in {X \in SUBSET {address_patterns[k] : k \in 1..Len(address_patterns)} :
                    Cardinality(X) <= MaxSynonyms},
          style \in HeaderStyles}

Addr_1MainSt == <<"1", " ", "M", "a", "i", "n", " ", "S", "t">>
Addr_2OakAve == <<"2", " ", "O", "a", "k", " ", "A", "v", "e">>
LOCATION == address_patterns[6]

AddressLayouts == {<<ADDRESS>>, <<ADDRESS1>>, <<ADDRESS1, ADDRESS2>>, <<LOCATION>>}

\* A file of the given kind with offset title rows, the address columns of
\* layout, a YEAR column or none, and the listing column; r gives each data
\* row's address cell and year cell.
FillFile(kind, offset, layout, has_year, listing_col, r) ==
    LET names == layout \o (IF has_year THEN <<YEAR>> ELSE <<>>) \o <<listing_col>>
        Cell(c, i) ==
            IF c = listing_col THEN StrCell(IF i % 2 = 1 THEN AcmeCo ELSE BetaInc)
            ELSE IF c = YEAR THEN r[i][2]
            ELSE IF c = ADDRESS2
            THEN (IF NotNa(r[i][1]) THEN StrCell(<<"#", "2">>) ELSE NaN)
            ELSE r[i][1]
    IN  [kind |-> kind,
         grid |-> MakeGrid(offset, names,
                      [i \in 1..Len(r) |-> [j \in 1..Len(names) |-> Cell(names[j], i)]])]

AddressCells == {NaN, StrCell(Addr_1MainSt), StrCell(Addr_2OakAve)}

\* Files whose address cells are partly empty: each data row states an address
\* or leaves it empty, and has a year or none.
FillFiles ==
    {FillFile(shape[1], shape[2], layout, TRUE, LISTING, r)
        : layout \in AddressLayouts,
          shape \in {<<"csv", 0>>, <<"xlsx", 0>>, <<"xlsx", 1>>},
          r \in SeqsUpTo(AddressCells \X {IntCell(1980), NaN}, MaxFileRows)}
    \cup
    {FillFile(shape[1], shape[2], layout, FALSE, LISTING, r)
        : layout \in AddressLayouts,
          shape \in {<<"csv", 0>>, <<"xlsx", 0>>, <<"xlsx", 1>>},
          r \in SeqsUpTo(AddressCells \X {NaN}, MaxFileRows)}

\* Spreadsheets whose header row is the last row the scan reads, or the first
\* it does not read, and files that name the listing column COMPANY_NAME.
OffsetFiles ==
    {FillFile(shape[1], shape[2], layout, has_year, listing_col,
              <<<<StrCell(Addr_1MainSt), IntCell(1980)>>, <<NaN, IntCell(1980)>>>>)
        : layout \in AddressLayouts,
          has_year \in BOOLEAN,
          listing_col \in {LISTING, COMPANY_NAME},
          shape \in {<<"csv", 0>>, <<"xlsx", 0>>, <<"xlsx", 1>>,
                     <<"xlsx", HeaderScanRows - 1>>, <<"xlsx", HeaderScanRows>>}}

\* Files with an ADDRESS column and one candidate for the listing column.
ListingFiles ==
    {[kind |-> "csv",
      grid |-> MakeGrid(0, <<ADDRESS, name>>, <<<<StrCell(Addr_1MainSt), StrCell(AcmeCo)>>>>)]
        : name \in {LISTING, COMPANY_NAME, <<"N", "O", "T", "E", "S">>}
                     \cup {listing_patterns[k] : k \in 1..Len(listing_patterns)}}

LoadFiles == SchemaFiles \cup FillFiles \cup OffsetFiles \cup ListingFiles

InitLoad ==
    /\ pc = "load"
    /\ uploaded \in LoadFiles
    /\ stage = "start" /\ raw_df = NoDf /\ notes = <<>>
    /\ AggIdle /\ TableIdle /\ SessIdle /\ OutIdle /\ AnyPandas

Load ==
    /\ pc = "load"
    /\ \E r \in {LoadFile(uploaded)} :
           /\ stage' = r.stage
           /\ raw_df' = r.raw
           /\ df' = r.t
           /\ notes' = r.notes
           /\ all_addresses' = r.addrs
    /\ pc' = "done"
    /\ UNCHANGED <<uploaded, aggVars, sessVars, outVars, last_action, runVars>>

NextLoad == Load

SpecLoad == InitLoad /\ [][NextLoad]_vars

---------------------------------------------------------------------------
(* Harness for the report builders: canonical tables of a few rows over    *)
(* two addresses, with and without a YEAR column; selections that also     *)
(* name an address the table does not hold; direction maps that lack       *)
(* entries.                                                                *)

MaxReportRows == 2
MaxSelected == 2

Addr_9ElmRd == <<"9", " ", "E", "l", "m", " ", "R", "d">>
North == <<"N", "o", "r", "t", "h">>
East == <<"E", "a", "s", "t">>
South == <<"S", "o", "u", "t", "h">>
West == <<"W", "e", "s", "t">>

ReportAddresses == {Addr_1MainSt, Addr_2OakAve}

ReportYearListings ==
    ({IntCell(1980), IntCell(1981)} \X {StrCell(AcmeCo), StrCell(BetaInc)})
        \cup {<<NaN, StrCell(AcmeCo)>>}

ReportTables ==
    {[cols |-> {ADDRESS, YEAR, LISTING},
      rows |-> [i \in 1..Len(p) |->
                   (ADDRESS :> StrCell(p[i][1])) @@ (YEAR :> p[i][2][1])
                       @@ (LISTING :> p[i][2][2])]]
        : p \in SeqsUpTo(ReportAddresses \X ReportYearListings, MaxReportRows)}
    \cup
    {[cols |-> {ADDRESS, LISTING},
      rows |-> [i \in 1..Len(p) |->
                   (ADDRESS :> StrCell(p[i][1])) @@ (LISTING :> p[i][2])]]
        : p \in SeqsUpTo(ReportAddresses \X {StrCell(AcmeCo), StrCell(BetaInc)},
                         MaxReportRows)}

\* The lists of distinct addresses of S of length at most n.
Selections(S, n) ==
    {q \in SeqsUpTo(S, n) : \A i, j \in 1..Len(q) : i # j => q[i] # q[j]}

ReportSelections == Selections(ReportAddresses \cup {Addr_9ElmRd}, MaxSelected)

ReportMaps ==
    {NoMap,
     (Addr_1MainSt :> North),
     (Addr_1MainSt :> <<>>) @@ (Addr_2OakAve :> West) @@ (Addr_9ElmRd :> South)}

InitReport ==
    /\ df \in ReportTables
    /\ all_addresses = <<>>
    /\ empty_apply \in EmptyApplyResults
    /\ \/ /\ pc = "build_subject"
          /\ subject_sel \in ReportSelections
          /\ adjoining_sel = <<>>
          /\ dir_map = NoMap
       \/ /\ pc = "build_adjoining"
          /\ subject_sel = <<>>
          /\ adjoining_sel \in ReportSelections
          /\ dir_map \in ReportMaps
    /\ run_subject = FALSE /\ run_adjoining = FALSE /\ dir_widget = NoMap
    /\ AggIdle /\ LoadIdle /\ OutIdle

BuildSubject ==
    /\ pc = "build_subject"
    /\ \E r \in {build_subject_report_docx(subject_sel, df)} :
           /\ subj_doc' = r.rows
           /\ exception' = IF r.raised THEN "TypeError" ELSE "none"
    /\ pc' = "subject_built"
    /\ UNCHANGED <<aggVars, loadVars, tableVars, sessVars, adj_doc, subj_blocks,
                   adj_blocks, last_action, empty_apply>>

BuildAdjoining ==
    /\ pc = "build_adjoining"
    /\ \E r \in {build_adjoining_report_docx(adjoining_sel, df, dir_map)} :
           /\ adj_doc' = r.rows
           /\ exception' = IF r.raised THEN "TypeError" ELSE "none"
    /\ pc' = "adjoining_built"
    /\ UNCHANGED <<aggVars, loadVars, tableVars, sessVars, subj_doc, subj_blocks,
                   adj_blocks, last_action, empty_apply>>

NextReport == BuildSubject \/ BuildAdjoining

SpecReport == InitReport /\ [][NextReport]_vars

---------------------------------------------------------------------------
(* The application: one upload, then any sequence of user actions.         *)

NOTES == <<"N", "O", "T", "E", "S">>

\* A CSV file with the given header and rows.
CsvFile(header, rows) == [kind |-> "csv", grid |-> MakeGrid(0, header, rows)]

AppFiles ==
    {CsvFile(<<ADDRESS, YEAR, LISTING>>,
             <<<<StrCell(Addr_1MainSt), IntCell(1980), StrCell(AcmeCo)>>,
               <<StrCell(Addr_1MainSt), IntCell(1981), StrCell(AcmeCo)>>,
               <<StrCell(Addr_2OakAve), IntCell(1980), StrCell(BetaInc)>>>>),
     CsvFile(<<ADDRESS, YEAR, LISTING>>,
             <<<<StrCell(Addr_1MainSt), IntCell(1980), StrCell(AcmeCo)>>,
               <<StrCell(Addr_2OakAve), NaN, StrCell(BetaInc)>>>>),
     CsvFile(<<ADDRESS, LISTING>>,
             <<<<StrCell(Addr_1MainSt), StrCell(AcmeCo)>>,
               <<StrCell(Addr_1MainSt), StrCell(BetaInc)>>>>),
     CsvFile(<<ADDRESS, NOTES>>, <<<<StrCell(Addr_1MainSt), StrCell(AcmeCo)>>>>)}
    \cup
    {CsvFile(<<name, YEAR, LISTING>>,
             <<<<StrCell(Addr_1MainSt), IntCell(1980), StrCell(AcmeCo)>>>>)
        : name \in {ADDRESS1, ADDRESS2, NOTES}
                     \cup {address_patterns[k] : k \in 1..Len(address_patterns)}}
    \cup
    {CsvFile(<<YEAR, LISTING>>, <<<<IntCell(1980), StrCell(AcmeCo)>>>>)}

Session ==
    [subject_sel |-> subject_sel, adjoining_sel |-> adjoining_sel,
     run_subject |-> run_subject, run_adjoining |-> run_adjoining, dir_map |-> dir_map]

\* The callback has left session state session and widget values dw; the
\* script runs again.
Rerun(session, dw) ==
    \E r \in {RunScript(df, session, dw)} :
        /\ subject_sel' = session.subject_sel
        /\ adjoining_sel' = session.adjoining_sel
        /\ run_subject' = session.run_subject
        /\ run_adjoining' = session.run_adjoining
        /\ dir_map' = r.dir_map
        /\ dir_widget' = r.dir_widget
        /\ subj_blocks' = r.subj_blocks
        /\ subj_doc' = r.subj_doc
        /\ adj_blocks' = r.adj_blocks
        /\ adj_doc' = r.adj_doc
        /\ exception' = r.exception

\* The multiselect after a click on address a: a is appended, or removed.
Toggled(selected, a) ==
    IF a \in Range(selected)
    THEN SelectRows(selected, {i \in 1..Len(selected) : selected[i] # a})
    ELSE Append(selected, a)

Init ==
    /\ pc = "app"
    /\ empty_apply \in EmptyApplyResults
    /\ AggIdle /\ LoadIdle /\ TableIdle /\ SessIdle /\ OutIdle

\* A file is uploaded: the script runs to st.stop() or, with the session
\* state of a new session, to its end.
Upload ==
    /\ pc = "app"
    /\ stage = "start"
    /\ \E file \in AppFiles :
           /\ uploaded' = file
           /\ \E r \in {LoadFile(file)} :
                  /\ stage' = r.stage
                  /\ raw_df' = r.raw
                  /\ df' = r.t
                  /\ notes' = r.notes
                  /\ all_addresses' = r.addrs
    /\ last_action' = "upload"
    /\ UNCHANGED <<pc, aggVars, sessVars, outVars, runVars>>

\* The widgets exist when the script got past both st.stop().
Interactive == pc = "app" /\ stage = "loaded"

SelectSubject ==
    /\ Interactive
    /\ \E a \in Range(all_addresses) :
           Rerun([Session EXCEPT !.subject_sel = Toggled(subject_sel, a)], dir_widget)
    /\ last_action' = "select_subject"
    /\ UNCHANGED <<pc, aggVars, loadVars, tableVars, empty_apply>>

SelectAdjoining ==
    /\ Interactive
    /\ \E a \in Range(all_addresses) :
           Rerun([Session EXCEPT !.adjoining_sel = Toggled(adjoining_sel, a)], dir_widget)
    /\ last_action' = "select_adjoining"
    /\ UNCHANGED <<pc, aggVars, loadVars, tableVars, empty_apply>>

\* CREATE SUBJECT PROPERTY TABLES: set_run_subject, then the run.
ClickCreateSubject ==
    /\ Interactive
    /\ Rerun([Session EXCEPT !.run_subject = TRUE], dir_widget)
    /\ last_action' = "create_subject"
    /\ UNCHANGED <<pc, aggVars, loadVars, tableVars, empty_apply>>

\* CREATE ADJOINING PROPERTY TABLES: set_run_adjoining, then the run.
ClickCreateAdjoining ==
    /\ Interactive
    /\ Rerun([Session EXCEPT !.run_adjoining = TRUE], dir_widget)
    /\ last_action' = "create_adjoining"
    /\ UNCHANGED <<pc, aggVars, loadVars, tableVars, empty_apply>>

\* The user picks another direction in a select box that is shown.
PickDirection ==
    /\ Interactive
    /\ \E a \in DOMAIN dir_widget :
       \E k \in 1..Len(dir_opts) :
           /\ dir_opts[k] # dir_widget[a]
           /\ Rerun(Session, [dir_widget EXCEPT ![a] = dir_opts[k]])
    /\ last_action' = "pick"
    /\ UNCHANGED <<pc, aggVars, loadVars, tableVars, empty_apply>>

\* CLEAR ALL: clear_all, then the run.
ClearAll ==
    /\ Interactive
    /\ Rerun(clear_all(Session), dir_widget)
    /\ last_action' = "clear"
    /\ UNCHANGED <<pc, aggVars, loadVars, tableVars, empty_apply>>

Next ==
    \/ Upload
    \/ SelectSubject
    \/ SelectAdjoining
    \/ ClickCreateSubject
    \/ ClickCreateAdjoining
    \/ PickDirection
    \/ ClearAll

Spec == Init /\ [][Next]_vars

---------------------------------------------------------------------------
(* C1                                                                      *)

YearRow(y, occ) == [year |-> IntCell(y), occ |-> occ]

\* Row i starts a run: it is the first row, or it does not continue row i-1.
StartsRun(t, i) ==
    \/ i = 1
    \/ ~(t[i].year.n = t[i - 1].year.n + 1 /\ t[i].occ = t[i - 1].occ)

RunStarts(t) == {i \in 1..Len(t) : StartsRun(t, i)}

\* The last row of the maximal run that starts at row s.
RunEnd(t, s) ==
    IF \E j \in RunStarts(t) : j > s
    THEN (CHOOSE j \in RunStarts(t) : j > s /\ \A h \in RunStarts(t) : h > s => j <= h) - 1
    ELSE Len(t)

\* The label the claim gives a run over the years a..b.
ClaimLabel(a, b) ==
    IF a = b THEN PyStrInt(a) ELSE PyStrInt(a) \o <<"-">> \o PyStrInt(b)

MaximalRuns(t) ==
    LET starts == AscendingSeq(RunStarts(t))
    IN  [k \in 1..Len(starts) |->
            <<ClaimLabel(t[starts[k]].year.n, t[RunEnd(t, starts[k])].year.n),
              t[starts[k]].occ>>]

Label_1970 == <<"1", "9", "7", "0">>
Label_1972 == <<"1", "9", "7", "2">>
Label_1970_1971 == <<"1", "9", "7", "0", "-", "1", "9", "7", "1">>

\* C1: on a table sorted ascending by distinct integer year, compress_year_runs
\* returns the maximal runs in input order: neighbours merge exactly when the
\* second year is the first + 1 and the occupant text is identical; a run of
\* one year is labelled "start", a longer one "start-end"; a gap breaks the run
\* even when the text matches; the empty table gives the empty result; and the
\* two examples of the specification come out as written.
C1_CompressMaximalRuns ==
    pc = "done" =>
        /\ runs = MaximalRuns(out_df)
        /\ (out_df = <<>> => runs = <<>>)
        /\ (out_df = <<YearRow(1970, OccA), YearRow(1971, OccA), YearRow(1972, OccB)>>
              => runs = <<<<Label_1970_1971, OccA>>, <<Label_1972, OccB>>>>)
        /\ (out_df = <<YearRow(1970, OccA), YearRow(1972, OccA)>>
              => runs = <<<<Label_1970, OccA>>, <<Label_1972, OccA>>>>)

\* A merge and a gap with matching text in one table, compressed.
C1_Witness ==
    /\ pc = "done"
    /\ out_df = <<YearRow(1970, OccA), YearRow(1971, OccA), YearRow(1973, OccA)>>
    /\ Len(runs) = 2

---------------------------------------------------------------------------
(* C2                                                                      *)

\* The rows of df_addr that survive the filtering of the year-aware mode: the
\* YEAR is numeric and the stripped LISTING is not empty.
KeptRows ==
    {i \in 1..Len(df_addr.rows) :
        /\ NotNa(ToNumeric(df_addr.rows[i][YEAR]))
        /\ ListingText(df_addr.rows[i][LISTING]) # <<>>}

KeptYears == {ToNumeric(df_addr.rows[i][YEAR]).n : i \in KeptRows}

ListingsOfYear(y) ==
    {ListingText(df_addr.rows[i][LISTING]) :
        i \in {j \in KeptRows : ToNumeric(df_addr.rows[j][YEAR]).n = y}}

\* The strings of S, each once, in ascending order.
AscendingStrings(S) ==
    CHOOSE q \in [1..Cardinality(S) -> S] :
        \A i, j \in 1..Cardinality(S) : i < j => StrLess(q[i], q[j])

AcmeCo_BetaInc ==
    <<"A", "c", "m", "e", " ", "C", "o", ",", " ", "B", "e", "t", "a", " ", "I", "n", "c">>

\* C2: with a YEAR column, format_year_listing returns one row per distinct
\* year that keeps at least one row after filtering, in ascending year order;
\* a row's occupant text is the listings of that year in ascending order, each
\* once, joined with ", " (so Acme Co, Acme Co, Beta Inc in 1980 give
\* "Acme Co, Beta Inc"); a year with no remaining row has no output row (and
\* when no year remains the table returned has no row).
C2_YearAwareOneRowPerYear ==
    (pc # "format" /\ YEAR \in df_addr.cols) =>
        LET ys == AscendingSeq(KeptYears)
        IN  /\ exception = "none"
            /\ Len(out_df) = Len(ys)
            /\ \A k \in 1..Len(ys) :
                  /\ out_df[k].year = IntCell(ys[k])
                  /\ out_df[k].occ =
                        PyJoin(COMMA_SPACE, AscendingStrings(ListingsOfYear(ys[k])))
            /\ (ListingsOfYear(1980) = {AcmeCo, BetaInc} =>
                  \E k \in 1..Len(out_df) :
                      out_df[k].year = IntCell(1980) /\ out_df[k].occ = AcmeCo_BetaInc)

\* The example of the specification, formatted: Acme Co twice and Beta Inc
\* once in 1980, given out of order.
C2_Witness ==
    /\ pc = "compress"
    /\ YEAR \in df_addr.cols
    /\ Len(df_addr.rows) = 3
    /\ \A i \in 1..3 : df_addr.rows[i][YEAR] = IntCell(1980)
    /\ df_addr.rows[1][LISTING] = StrCell(BetaInc)
    /\ df_addr.rows[2][LISTING] = StrCell(AcmeCo)
    /\ df_addr.rows[3][LISTING] = StrCell(AcmeCo)
    /\ out_df = <<[year |-> IntCell(1980), occ |-> AcmeCo_BetaInc]>>

---------------------------------------------------------------------------
(* C3                                                                      *)

\* The index of the first row of df_addr whose stripped LISTING is x.
FirstSeen(x) ==
    CHOOSE i \in 1..Len(df_addr.rows) :
        /\ ListingText(df_addr.rows[i][LISTING]) = x
        /\ \A j \in 1..(i - 1) : ListingText(df_addr.rows[j][LISTING]) # x

DistinctListings ==
    {ListingText(df_addr.rows[i][LISTING]) : i \in 1..Len(df_addr.rows)} \ {<<>>}

---------------------------------------------------------------------------
(* C8                                                                      *)

\* The key the claim describes, written out by hand for the addresses of the
\* pool: the upper-cased street name without house number and unit markers,
\* the house number (0 without leading digits), the number of the first "#N"
\* (0 without one), the upper-cased address.
ClaimKey(a) ==
    CASE a = Addr_123MainSt2 ->
            <<<<"M", "A", "I", "N", " ", "S", "T">>, 123, 2,
              <<"1", "2", "3", " ", "M", "A", "I", "N", " ", "S", "T", " ", "#", "2">>>>
      [] a = Addr_123MainSt1 ->
            <<<<"M", "A", "I", "N", " ", "S", "T">>, 123, 1,
              <<"1", "2", "3", " ", "M", "A", "I", "N", " ", "S", "T", " ", "#", "1">>>>
      [] a = Addr_123MainSt10 ->
            <<<<"M", "A", "I", "N", " ", "S", "T">>, 123, 10,
              <<"1", "2", "3", " ", "M", "A", "I", "N", " ", "S", "T", " ", "#", "1", "0">>>>
      [] a = Addr_45MainSt ->
            <<<<"M", "A", "I", "N", " ", "S", "T">>, 45, 0,
              <<"4", "5", " ", "M", "A", "I", "N", " ", "S", "T">>>>
      [] a = Addr_123ElmSt ->
            <<<<"E", "L", "M", " ", "S", "T">>, 123, 0,
              <<"1", "2", "3", " ", "E", "L", "M", " ", "S", "T">>>>
      [] a = Addr_MainSt ->
            <<<<"M", "A", "I", "N", " ", "S", "T">>, 0, 0,
              <<"M", "A", "I", "N", " ", "S", "T">>>>
      [] a = Addr_123mainst1 ->
            <<<<"M", "A", "I", "N", " ", "S", "T">>, 123, 1,
              <<"1", "2", "3", " ", "M", "A", "I", "N", " ", "S", "T", " ", "#", "1">>>>
      [] a = Addr_Unit5_7Oak ->
            <<<<"7", " ", "O", "A", "K">>, 0, 5,
              <<"#", "5", " ", "7", " ", "O", "A", "K", " ", "#", "6">>>>

\* Lexicographic order of the keys: the first component that differs decides,
\* strings alphabetically, numbers numerically.
ClaimKeyLess(k1, k2) ==
    \E c \in 1..4 :
        /\ \A d \in 1..(c - 1) : k1[d] = k2[d]
        /\ IF c \in {1, 4} THEN StrLess(k1[c], k2[c]) ELSE k1[c] < k2[c]

\* The index of the first row of df whose ADDRESS is a.
FirstRowOf(a) ==
    CHOOSE i \in 1..Len(df.rows) :
        /\ df.rows[i][ADDRESS] = StrCell(a)
        /\ \A j \in 1..(i - 1) : df.rows[j][ADDRESS] # StrCell(a)

\* C8: the selectable addresses are the distinct non-blank addresses of the
\* table ordered by the key (street name alphabetically, then house number
\* numerically, then unit number numerically, then the upper-cased address);
\* addresses with equal keys keep their first-seen order, so the order is a
\* function of the input list; the example of the specification sorts to
\* 123 Elm St, 45 Main St, 123 Main St #1, 123 Main St #2.
C8_AddressesSortedByKey ==
    pc = "done" =>
        /\ {all_addresses[i] : i \in 1..Len(all_addresses)} =
              {df.rows[i][ADDRESS].s : i \in 1..Len(df.rows)} \ {<<>>}
        /\ \A i, j \in 1..Len(all_addresses) :
              i < j =>
                /\ all_addresses[i] # all_addresses[j]
                /\ ~ClaimKeyLess(ClaimKey(all_addresses[j]), ClaimKey(all_addresses[i]))
                /\ (ClaimKey(all_addresses[i]) = ClaimKey(all_addresses[j]) =>
                      FirstRowOf(all_addresses[i]) < FirstRowOf(all_addresses[j]))
        /\ \A i \in 1..Len(all_addresses) :
              parse_address_for_sort(all_addresses[i]) = ClaimKey(all_addresses[i])
        /\ (df = AddressTable(ExampleAddresses) =>
              all_addresses =
                <<Addr_123ElmSt, Addr_45MainSt, Addr_123MainSt1, Addr_123MainSt2>>)

\* The example list, sorted.
C8_Witness ==
    /\ pc = "done"
    /\ df = AddressTable(ExampleAddresses)
    /\ all_addresses = <<Addr_123ElmSt, Addr_45MainSt, Addr_123MainSt1, Addr_123MainSt2>>

---------------------------------------------------------------------------
(* C4                                                                      *)

Synonyms == {address_patterns[k] : k \in 1..Len(address_patterns)}

UsedCombined == \E k \in 1..Len(notes) : notes[k].tag = "combined"
UsedAsAddress(c) == \E k \in 1..Len(notes) : notes[k] = Note("using_as_address", <<c>>)

\* The column c of the table as read, every cell normalized.
NormalizedColumn(c) ==
    [i \in 1..Len(raw_df.rows) |-> StrCell(normalize_addr(raw_df.rows[i][c]))]

\* The texts of two cells joined by a single space, then normalized; an empty
\* cell has no text.
JoinedAndNormalized(c1, c2) ==
    LET Text(c) == IF NotNa(c) THEN PyStr(c) ELSE <<>>
    IN  StrCell(CollapseSpaces(PyStrip(Text(c1) \o <<" ">> \o Text(c2))))

\* C4: the address column is resolved in a fixed precedence over the column
\* names (upper-cased): ADDRESS is used whenever it exists, whatever else
\* exists; ADDRESS1 and ADDRESS2 are joined by a single space and normalized
\* exactly when ADDRESS is absent and both exist; ADDRESS1 alone is used exactly
\* when ADDRESS and ADDRESS2 are absent and it exists; a synonym column is
\* used only when ADDRESS and ADDRESS1 are both absent.
C4_AddressPrecedence ==
    pc = "done" =>
        LET Has(n) == n \in raw_df.cols
        IN  /\ Has(ADDRESS) =>
                  /\ ~UsedCombined
                  /\ \A c \in raw_df.cols : ~UsedAsAddress(c)
                  /\ Column(df, ADDRESS) = NormalizedColumn(ADDRESS)
            /\ UsedCombined <=> (~Has(ADDRESS) /\ Has(ADDRESS1) /\ Has(ADDRESS2))
            /\ UsedCombined =>
                  Column(df, ADDRESS) =
                      [i \in 1..Len(raw_df.rows) |->
                          JoinedAndNormalized(raw_df.rows[i][ADDRESS1],
                                              raw_df.rows[i][ADDRESS2])]
            /\ UsedAsAddress(ADDRESS1) <=>
                  (~Has(ADDRESS) /\ Has(ADDRESS1) /\ ~Has(ADDRESS2))
            /\ UsedAsAddress(ADDRESS1) =>
                  Column(df, ADDRESS) = NormalizedColumn(ADDRESS1)
            /\ \A c \in Synonyms :
                  UsedAsAddress(c) =>
                      /\ ~Has(ADDRESS) /\ ~Has(ADDRESS1)
                      /\ Column(df, ADDRESS) = NormalizedColumn(c)

\* A file with address, address1 and address2 columns (headers in lower
\* case), loaded: the addresses are those of the ADDRESS column.
C4_Witness ==
    /\ pc = "done"
    /\ stage = "loaded"
    /\ {ADDRESS, ADDRESS1, ADDRESS2} \subseteq raw_df.cols
    /\ \E j \in 1..Len(uploaded.grid[1]) : uploaded.grid[1][j] = StrCell(PyLower(ADDRESS))
    /\ Column(df, ADDRESS)[1] = StrCell(<<"1", " ">> \o ADDRESS)

---------------------------------------------------------------------------
(* C9                                                                      *)

\* The table under the header row the program settles on, before any row is
\* dropped and before any cell is filled.
TableAsWritten ==
    LET h == IF uploaded.kind = "csv" \/ HeaderRow(uploaded.grid) < 0 THEN 0
             ELSE HeaderRow(uploaded.grid)
    IN  UpperColumns(ReadTable(uploaded.grid, h))

\* The rows of TableAsWritten that are rows of df: all of them, except that
\* under a header row found by the scan the rows without YEAR are dropped.
RowsKept ==
    LET t == TableAsWritten
    IN  IF uploaded.kind # "csv" /\ HeaderRow(uploaded.grid) >= 0 /\ YEAR \in t.cols
        THEN {i \in 1..Len(t.rows) : NotNa(t.rows[i][YEAR])}
        ELSE 1..Len(t.rows)

\* The address cell of each row as written: the cell of the resolved column,
\* or for ADDRESS1 + ADDRESS2 the two texts joined (empty when both are).
AddressAsWritten ==
    LET t == TableAsWritten
        rule == AddressRule(t)
        col == CASE rule = "address" -> ADDRESS
                 [] rule = "address1" -> ADDRESS1
                 [] rule = "pattern" -> address_patterns[FirstPattern(t, address_patterns, 1)]
                 [] OTHER -> ADDRESS1
    IN  [i \in 1..Len(t.rows) |->
            IF rule = "combine"
            THEN (IF NotNa(t.rows[i][ADDRESS1]) \/ NotNa(t.rows[i][ADDRESS2])
                  THEN JoinedAndNormalized(t.rows[i][ADDRESS1], t.rows[i][ADDRESS2])
                  ELSE NaN)
            ELSE t.rows[i][col]]

\* The nearest row at or above i whose address cell is not empty; 0 when none.
NearestStated(cells, i) ==
    IF \E j \in 1..i : NotNa(cells[j])
    THEN CHOOSE j \in 1..i : NotNa(cells[j]) /\ \A h \in (j + 1)..i : ~NotNa(cells[h])
    ELSE 0

\* C9: whenever an address column is resolved (ADDRESS, ADDRESS1 + ADDRESS2,
\* ADDRESS1 alone or a synonym), every row of the canonical table whose address
\* cell was empty carries the normalized address of the nearest row above it
\* that states one, and every other row its own.
C9_ForwardFilledAddresses ==
    (pc = "done" /\ stage \in {"loaded", "no_listing"}) =>
        LET cells == AddressAsWritten
            kept == AscendingSeq(RowsKept)
        IN  /\ Len(df.rows) = Len(kept)
            /\ \A k \in 1..Len(kept) :
                  NearestStated(cells, kept[k]) > 0 =>
                      df.rows[k][ADDRESS] =
                          StrCell(normalize_addr(cells[NearestStated(cells, kept[k])]))

\* C9's case under ADDRESS1 alone: a CSV file states the address in its first
\* row and leaves the cell empty in the second; the second canonical row
\* carries the text of the empty cell, not the address above it.
C9_Witness ==
    /\ pc = "done"
    /\ stage = "loaded"
    /\ uploaded.kind = "csv"
    /\ ADDRESS \notin raw_df.cols
    /\ ADDRESS1 \in raw_df.cols
    /\ ADDRESS2 \notin raw_df.cols
    /\ Len(df.rows) >= 2
    /\ TableAsWritten.rows[1][ADDRESS1] = StrCell(Addr_1MainSt)
    /\ TableAsWritten.rows[2][ADDRESS1] = NaN
    /\ df.rows[1][ADDRESS] = StrCell(Addr_1MainSt)
    /\ df.rows[2][ADDRESS] = StrCell(NAN_TEXT)

---------------------------------------------------------------------------
(* C6                                                                      *)

\* The compressed runs of an address of df.
RunsOf(addr) == compress_year_runs(format_year_listing(Block(df, addr)).rows)

\* The entries the claim gives an address: one per run, or the one
\* "No results" entry.
ClaimedSubjectEntries(addr) ==
    IF RunsOf(addr) = <<>>
    THEN <<<<<<>>, addr \o <<" ", "EMDASH", " ">> \o NO_RESULTS>>>>
    ELSE [i \in 1..Len(RunsOf(addr)) |->
             <<RunsOf(addr)[i][1], addr \o <<" ", "EMDASH", " ">> \o RunsOf(addr)[i][2]>>]

RECURSIVE ClaimedSubjectDocument(_)
ClaimedSubjectDocument(sel) ==
    IF sel = <<>> THEN <<>>
    ELSE ClaimedSubjectEntries(Head(sel)) \o ClaimedSubjectDocument(Tail(sel))

\* C6: for every list of selected subject addresses and every canonical table
\* build_subject_report_docx returns a document (it does not fail) that holds,
\* per selected address in selection order, one entry (year_label,
\* "address - occupant_text") per compressed run of the address, and exactly
\* one entry ("", "address - No results") for an address without runs.
C6_SubjectEntries ==
    pc = "subject_built" =>
        /\ exception = "none"
        /\ subj_doc = ClaimedSubjectDocument(subject_sel)

Label_1980_1981 == <<"1", "9", "8", "0", "-", "1", "9", "8", "1">>

\* 9 Elm Rd, which matches no row of a table with a YEAR column, is selected
\* after 1 Main St: the build ends in the TypeError and there is no document.
C6_Witness ==
    /\ pc = "subject_built"
    /\ subject_sel = <<Addr_1MainSt, Addr_9ElmRd>>
    /\ YEAR \in df.cols
    /\ RunsOf(Addr_1MainSt) = <<<<Label_1980_1981, AcmeCo>>>>
    /\ exception = "TypeError"
    /\ subj_doc = <<>>

---------------------------------------------------------------------------
(* C7                                                                      *)

\* The occupant field the claim gives an address: a line
\* "occupant_text (year_label)" per run, in run order, or "No results".
ClaimedOccupantField(addr) ==
    IF RunsOf(addr) = <<>> THEN NO_RESULTS
    ELSE PyJoin(<<"\n">>,
                [i \in 1..Len(RunsOf(addr)) |->
                    RunsOf(addr)[i][2] \o <<" ", "(">> \o RunsOf(addr)[i][1] \o <<")">>])

\* C7: build_adjoining_report_docx returns a document with exactly one entry
\* per selected address, in selection order: the direction the map holds for
\* the address ("" when it holds none), the address, and the occupant field.
C7_AdjoiningEntries ==
    pc = "adjoining_built" =>
        /\ exception = "none"
        /\ Len(adj_doc) = Len(adjoining_sel)
        /\ \A k \in 1..Len(adjoining_sel) :
              adj_doc[k] =
                  <<IF adjoining_sel[k] \in DOMAIN dir_map
                    THEN dir_map[adjoining_sel[k]] ELSE <<>>,
                    adjoining_sel[k],
                    ClaimedOccupantField(adjoining_sel[k])>>

\* An address all of whose rows lack a year, in a table with a YEAR column, is
\* selected: the build ends in the TypeError and there is no document.
C7_Witness ==
    /\ pc = "adjoining_built"
    /\ adjoining_sel = <<Addr_2OakAve>>
    /\ YEAR \in df.cols
    /\ Len(Block(df, Addr_2OakAve).rows) = 1
    /\ ~NotNa(Block(df, Addr_2OakAve).rows[1][YEAR])
    /\ exception = "TypeError"
    /\ adj_doc = <<>>

---------------------------------------------------------------------------
(* C5                                                                      *)

\* The synonym column names the claim lists.
ClaimedSynonyms ==
    {<<"S", "T", "R", "E", "E", "T", " ", "A", "D", "D", "R", "E", "S", "S">>,
     <<"P", "R", "O", "P", "E", "R", "T", "Y", " ", "A", "D", "D", "R", "E", "S", "S">>,
     <<"S", "I", "T", "E", " ", "A", "D", "D", "R", "E", "S", "S">>,
     <<"L", "O", "C", "A", "T", "I", "O", "N">>,
     <<"S", "T", "R", "E", "E", "T">>,
     <<"A", "D", "D", "R">>}

\* The two names the program accepts besides.
UnderscoredSynonyms ==
    {<<"S", "T", "R", "E", "E", "T", "_", "A", "D", "D", "R", "E", "S", "S">>,
     <<"P", "R", "O", "P", "E", "R", "T", "Y", "_", "A", "D", "D", "R", "E", "S", "S">>}

\* Nothing was produced for the table: no detail block and no document.
NoReport ==
    /\ subj_doc = <<>> /\ adj_doc = <<>>
    /\ subj_blocks = <<>> /\ adj_blocks = <<>>

MissingAddressSignalled ==
    /\ stage = "no_address"
    /\ \E k \in 1..Len(notes) : notes[k].tag = "error_no_address"

\* C5 as stated: an uploaded table without ADDRESS, without ADDRESS1 and
\* without any of STREET ADDRESS, PROPERTY ADDRESS, SITE ADDRESS, LOCATION,
\* STREET, ADDR is in the missing-address-column condition, and no report is
\* produced for it.
C5_MissingAddressAsStated ==
    (stage # "start" /\ raw_df.cols \cap ({ADDRESS, ADDRESS1} \cup ClaimedSynonyms) = {}) =>
        /\ MissingAddressSignalled
        /\ NoReport

\* C5, amended: an uploaded table without ADDRESS, without ADDRESS1 and
\* without any of STREET ADDRESS, STREET_ADDRESS, PROPERTY ADDRESS,
\* PROPERTY_ADDRESS, SITE ADDRESS, LOCATION, STREET, ADDR is in the
\* missing-address-column condition; in that state nothing has been produced
\* and no user action takes place: the upload was the last step.
C5_MissingAddressTerminal ==
    /\ [](  (stage # "start"
             /\ raw_df.cols \cap ({ADDRESS, ADDRESS1} \cup ClaimedSynonyms
                                    \cup UnderscoredSynonyms) = {})
          => (MissingAddressSignalled /\ NoReport /\ last_action = "upload"))
    /\ [][stage # "no_address"]_vars

\* A file whose columns are ADDRESS2, YEAR and LISTING has been uploaded.
C5_Witness ==
    /\ raw_df.cols = {ADDRESS2, YEAR, LISTING}
    /\ MissingAddressSignalled
    /\ all_addresses = <<>>
    /\ NoReport

---------------------------------------------------------------------------
(* C10                                                                     *)

Directions == {<<>>, North, East, South, West}

\* Every value of the direction map is "", North, East, South or West.
DirectionValues == \A a \in DOMAIN dir_map : dir_map[a] \in Directions

\* The state right after clear-all.
Cleared ==
    /\ DOMAIN dir_map = {}
    /\ subject_sel = <<>> /\ adjoining_sel = <<>>
    /\ run_subject = FALSE /\ run_adjoining = FALSE

\* C10 as stated: the values of the map are directions, the state right after
\* clear-all is the cleared one, and a step changes the map only when it is a
\* direction pick or clear-all.
C10_MapChangedOnlyByPickOrClear ==
    [][/\ DirectionValues'
       /\ (last_action' = "clear" => Cleared')
       /\ (dir_map' # dir_map => last_action' \in {"pick", "clear"})]_vars

\* The step adds entries to the map, each "" and each for a selected
\* adjoining address, and changes no entry.
DefaultsInserted ==
    /\ run_adjoining'
    /\ DOMAIN dir_map \subseteq DOMAIN dir_map'
    /\ \A a \in DOMAIN dir_map : dir_map'[a] = dir_map[a]
    /\ \A a \in DOMAIN dir_map' \ DOMAIN dir_map :
          dir_map'[a] = <<>> /\ a \in Range(adjoining_sel')

\* The step changes the entry of one address whose select box was shown.
OnePicked ==
    /\ DOMAIN dir_map' = DOMAIN dir_map
    /\ \E a \in DOMAIN dir_widget :
          /\ dir_map'[a] # dir_map[a]
          /\ \A b \in DOMAIN dir_map \ {a} : dir_map'[b] = dir_map[b]

\* C10, amended: the values of the map are directions; the state right after
\* clear-all is the cleared one; a step changes the map only when it is
\* clear-all, or a direction pick, which changes the entry of the address
\* picked for, or a run that shows the direction select boxes, which gives
\* every selected adjoining address without an entry the entry "" and changes
\* no entry; the report builder is handed the map and returns it unchanged.
C10_MapChanges ==
    [][/\ DirectionValues'
       /\ (last_action' = "clear" => Cleared')
       /\ (dir_map' # dir_map =>
              \/ last_action' = "clear"
              \/ last_action' = "pick" /\ OnePicked
              \/ last_action' # "pick" /\ last_action' # "clear" /\ DefaultsInserted)
       /\ (adj_doc' # <<>> =>
              /\ Len(adj_doc') = Len(adjoining_sel')
              /\ \A k \in 1..Len(adj_doc') :
                    adj_doc'[k][1] = dir_map'[adjoining_sel'[k]])]_vars

\* 2 Oak Ave and 1 Main St are the adjoining addresses, the tables were
\* created, and North has just been picked for 1 Main St: the map holds North
\* for it and "" for 2 Oak Ave, and so does the document.
C10_Witness ==
    /\ last_action = "pick"
    /\ adjoining_sel = <<Addr_2OakAve, Addr_1MainSt>>
    /\ DOMAIN dir_map = {Addr_1MainSt, Addr_2OakAve}
    /\ dir_map[Addr_1MainSt] = North
    /\ dir_map[Addr_2OakAve] = <<>>
    /\ exception = "none"
    /\ Len(adj_doc) = 2
    /\ adj_doc[1][1] = <<>>
    /\ adj_doc[2][1] = North

---------------------------------------------------------------------------
(* C11                                                                     *)

\* The rows a detail block shows: none when it shows "No results".
ShownRows(b) == IF b.rows = <<<<NO_RESULTS>>>> THEN <<>> ELSE b.rows

\* The text is a year: decimal digits only.
IsYearText(s) == s # <<>> /\ \A i \in 1..Len(s) : IsDigit(s[i])

\* Every row shown carries one year, or every row carries "N/A".
ShowsYears(b) == \A i \in 1..Len(ShownRows(b)) : IsYearText(ShownRows(b)[i][1])
ShowsNoYears(b) == \A i \in 1..Len(ShownRows(b)) : ShownRows(b)[i][1] = NA_LABEL

\* The rows shown, read as rows of years.
ShownYearRows(b) ==
    [i \in 1..Len(ShownRows(b)) |->
        YearRow(PyIntOf(ShownRows(b)[i][1], 1, Len(ShownRows(b)[i][1])),
                ShownRows(b)[i][2])]

\* The runs the rows shown compress to: consecutive years with the same
\* occupant text merge; rows without years stay as they are.
RunsShown(b) ==
    IF ShownRows(b) # <<>> /\ ShowsYears(b) THEN MaximalRuns(ShownYearRows(b))
    ELSE ShownRows(b)

\* The entries of the subject document for an address with the given runs.
SubjectEntriesFor(addr, rs) ==
    IF rs = <<>>
    THEN <<<<<<>>, addr \o <<" ", "EMDASH", " ">> \o NO_RESULTS>>>>
    ELSE [i \in 1..Len(rs) |-> <<rs[i][1], addr \o <<" ", "EMDASH", " ">> \o rs[i][2]>>]

\* The occupant field of the adjoining document for the given runs.
OccupantFieldFor(rs) ==
    IF rs = <<>> THEN NO_RESULTS
    ELSE PyJoin(<<"\n">>,
                [i \in 1..Len(rs) |-> rs[i][2] \o <<" ", "(">> \o rs[i][1] \o <<")">>])

\* The subject document whose runs are the rows the blocks show.
RECURSIVE DocumentOfRowsShown(_)
DocumentOfRowsShown(blocks) ==
    IF blocks = <<>> THEN <<>>
    ELSE SubjectEntriesFor(Head(blocks).addr, ShownRows(Head(blocks)))
             \o DocumentOfRowsShown(Tail(blocks))

\* The subject document whose runs are what the rows shown compress to.
RECURSIVE DocumentOfRunsShown(_)
DocumentOfRunsShown(blocks) ==
    IF blocks = <<>> THEN <<>>
    ELSE SubjectEntriesFor(Head(blocks).addr, RunsShown(Head(blocks)))
             \o DocumentOfRunsShown(Tail(blocks))

\* A block is rendered for every selected address, in selection order.
BlocksFollow(blocks, selected) ==
    /\ Len(blocks) = Len(selected)
    /\ \A k \in 1..Len(blocks) : blocks[k].addr = selected[k]

\* C11 as stated: whenever a report document is built, a detail block is
\* shown for every selected address and the rows of the block are the
\* (year_label, occupant_text) runs the document contains for that address.
C11_BlocksShowDocumentRuns ==
    /\ subj_doc # <<>> =>
          /\ BlocksFollow(subj_blocks, subject_sel)
          /\ subj_doc = DocumentOfRowsShown(subj_blocks)
    /\ adj_doc # <<>> =>
          /\ BlocksFollow(adj_blocks, adjoining_sel)
          /\ \A k \in 1..Len(adj_blocks) :
                adj_doc[k][3] = OccupantFieldFor(ShownRows(adj_blocks[k]))

\* C11, amended: a detail block shows the rows before compression, one row
\* per year (or rows labelled "N/A", or "No results"), never a range of
\* years; whenever a report document is built, a block is shown for every
\* selected address and the document contains for that address the runs that
\* the rows of the block compress to.
C11_BlocksShowRowsBeforeCompression ==
    /\ \A k \in 1..Len(subj_blocks) :
          ShowsYears(subj_blocks[k]) \/ ShowsNoYears(subj_blocks[k])
    /\ \A k \in 1..Len(adj_blocks) :
          ShowsYears(adj_blocks[k]) \/ ShowsNoYears(adj_blocks[k])
    /\ subj_doc # <<>> =>
          /\ BlocksFollow(subj_blocks, subject_sel)
          /\ subj_doc = DocumentOfRunsShown(subj_blocks)
    /\ adj_doc # <<>> =>
          /\ BlocksFollow(adj_blocks, adjoining_sel)
          /\ \A k \in 1..Len(adj_blocks) :
                adj_doc[k][3] = OccupantFieldFor(RunsShown(adj_blocks[k]))

\* 1 Main St, listed with Acme Co in 1980 and in 1981, is the selected subject
\* address and also an adjoining one: its blocks show the two years, the
\* documents the one run 1980-1981.
C11_Witness ==
    /\ exception = "none"
    /\ subject_sel = <<Addr_1MainSt>>
    /\ Len(subj_blocks) = 1
    /\ subj_blocks[1].rows = <<<<<<"1", "9", "8", "0">>, AcmeCo>>,
                               <<<<"1", "9", "8", "1">>, AcmeCo>>>>
    /\ subj_doc = <<<<Label_1980_1981, Addr_1MainSt \o EM_DASH \o AcmeCo>>>>
    /\ adjoining_sel = <<Addr_2OakAve, Addr_1MainSt>>
    /\ Len(adj_blocks) = 2
    /\ adj_blocks[2].rows = subj_blocks[1].rows
    /\ Len(adj_doc) = 2
    /\ adj_doc[2][3] = AcmeCo \o <<" ", "(">> \o Label_1980_1981 \o <<")">>

=============================================================================
